---- MODULE Spec2Model ----
(***************************************************************************)
(* The sorted block reader of table/block.cc: Block (trailer validation    *)
(* and iterator factories), Block::Iter (the prefix-compressed cursor),    *)
(* Block::MetricsIter and the BlockMetrics bitmap.                         *)
(*                                                                         *)
(* A byte is a number in 0..255, a buffer a sequence of bytes; offset o of *)
(* the C++ code is element o+1 of the sequence.                            *)
(*                                                                         *)
(* A uint32_t is kept with its full width: it is stored as the 32-bit      *)
(* two's-complement pattern of its value, so v < 2^31 is the integer v and *)
(* v >= 2^31 is the integer v - 2^32.  Addition, negation and comparison   *)
(* are the unsigned ones on that pattern (Add32, Neg32, ULt).              *)
(***************************************************************************)
EXTENDS Integers, Sequences, FiniteSets, TLC

VARIABLES
  data,      \* BlockContents::data, the bytes handed to Block::Block
  blk,       \* the Block: size_ and restart_offset_
  iter,      \* the iterator made by NewIterator / NewMetricsIterator
  metrics,   \* the BlockMetrics made by NewMetricsIterator, or NULL
  gen,       \* what the buffer was generated from (never changes)
  hist,      \* the last call on the iterator and what it was given
  bm,        \* stand-alone BlockMetrics instances (MetricsSpec)
  acc,       \* per instance, the (restart_index, restart_offset) recorded
  mh,        \* the last call on the instances and what it returned
  call,      \* arguments of a call of a static function (CallSpec)
  ret        \* what that call returned

blockVars == <<data, blk, iter, metrics, gen, hist>>

metricsVars == <<bm, acc, mh>>

callVars == <<call, ret>>

vars == <<data, blk, iter, metrics, gen, hist, bm, acc, mh, call, ret>>

(***************************************************************************)
(* Bounds and program constants                                            *)
(***************************************************************************)
MaxEntries == 3

MaxBody == 8

kBytesPerRestart == 2

sizeof_uint32_t == 4

NULL == [ok |-> FALSE]

(***************************************************************************)
(* uint32_t arithmetic on two's-complement patterns                        *)
(***************************************************************************)
ULt(a, b) == IF (a < 0) = (b < 0) THEN a < b ELSE b < 0

ULe(a, b) == a = b \/ ULt(a, b)

Add32(a, b) ==
  IF a >= 0 /\ b >= 0
  THEN IF a > 2147483647 - b
       THEN (a - 2147483647 - 1) + (b - 2147483647 - 1)
       ELSE a + b
  ELSE IF a < 0 /\ b < 0
       THEN LET t == (a + 2147483647 + 1) + b
            IN  IF t >= 0 THEN t - 2147483647 - 1 ELSE t + 2147483647 + 1
       ELSE a + b

Neg32(a) == IF a = -2147483647 - 1 THEN a ELSE -a

Sub32(a, b) == Add32(a, Neg32(b))

\* The low 32 bits of x * sizeof(uint32_t), the product taken in size_t.
TimesSizeof32(x) ==
  LET y == (IF x >= 0 THEN x ELSE x + 2147483647 + 1) % 1073741824
  IN  IF y < 536870912 THEN sizeof_uint32_t * y
                       ELSE sizeof_uint32_t * (y - 1073741824)

\* x mod m for a uint32_t x and a small m > 0.
UMod(x, m) ==
  IF x >= 0 THEN x % m
  ELSE (((x + 2147483647 + 1) % m) + (2147483647 % m) + 1) % m

(***************************************************************************)
(* util/coding.h: fixed and variable length integers                       *)
(***************************************************************************)
ByteAt(d, off) == d[off + 1]

DecodeFixed32(d, off) ==
  LET b3 == ByteAt(d, off + 3)
  IN  ByteAt(d, off) + 256 * ByteAt(d, off + 1) + 65536 * ByteAt(d, off + 2)
        + 16777216 * (IF b3 < 128 THEN b3 ELSE b3 - 256)

PutFixed32(n) ==
  << n % 256, (n \div 256) % 256, (n \div 65536) % 256, (n \div 16777216) % 256 >>

\* (byte & 127) << shift, truncated to 32 bits, for shift in {0,7,14,21,28}.
VarintChunk(byte, shift) ==
  LET v == byte % 128
  IN  IF shift = 0 THEN v
      ELSE IF shift = 7 THEN v * 128
      ELSE IF shift = 14 THEN v * 16384
      ELSE IF shift = 21 THEN v * 2097152
      ELSE LET w == v % 16 IN (IF w < 8 THEN w ELSE w - 16) * 268435456

RECURSIVE GetVarint32PtrFallback(_, _, _, _, _)
GetVarint32PtrFallback(d, p, limit, shift, result) ==
  IF shift <= 28 /\ p < limit
  THEN LET byte == ByteAt(d, p)
       IN  IF byte >= 128
           THEN GetVarint32PtrFallback(d, p + 1, limit, shift + 7,
                                       result + VarintChunk(byte, shift))
           ELSE [ok |-> TRUE, p |-> p + 1,
                 value |-> result + VarintChunk(byte, shift)]
  ELSE NULL

GetVarint32Ptr(d, p, limit) ==
  IF p < limit /\ ByteAt(d, p) < 128
  THEN [ok |-> TRUE, p |-> p + 1, value |-> ByteAt(d, p)]
  ELSE GetVarint32PtrFallback(d, p, limit, 0, 0)

(***************************************************************************)
(* Block::Block and Block::NumRestarts                                     *)
(***************************************************************************)
NumRestarts(d, size) == DecodeFixed32(d, size - sizeof_uint32_t)

\* restart_offset_ as line 35 computes it: the product and the difference
\* are taken in size_t and the result is stored in the uint32_t member.
RestartOffset(d) ==
  Sub32(Len(d), TimesSizeof32(Add32(1, NumRestarts(d, Len(d)))))

\* The test of line 36 on the restart_offset_ just stored.
CheckRestartOffset(size, ro) ==
  IF ULt(size - sizeof_uint32_t, ro)
  THEN [size_ |-> 0, restart_offset_ |-> ro]
  ELSE [size_ |-> size, restart_offset_ |-> ro]

BlockCtor(d) ==
  IF Len(d) < sizeof_uint32_t
  THEN [size_ |-> 0, restart_offset_ |-> 0]
  ELSE CheckRestartOffset(Len(d), RestartOffset(d))

(***************************************************************************)
(* DecodeEntry.  p and limit are offsets into d; p may be any uint32_t (a  *)
(* restart point read from a damaged restart array), limit is inside the   *)
(* buffer.                                                                 *)
(***************************************************************************)
\* Lines 69-71: three varints, each read where the one before ended.
SecondVarint(a, b) ==
  IF ~b.ok THEN NULL
  ELSE [ok |-> TRUE, p |-> b.p, shared |-> a.value, non_shared |-> b.value]

AfterFirstVarint(d, limit, a) ==
  IF ~a.ok THEN NULL ELSE SecondVarint(a, GetVarint32Ptr(d, a.p, limit))

ThirdVarint(ab, c) ==
  IF ~c.ok THEN NULL
  ELSE [ok |-> TRUE, p |-> c.p, shared |-> ab.shared,
        non_shared |-> ab.non_shared, value_length |-> c.value]

AfterSecondVarint(d, limit, ab) ==
  IF ~ab.ok THEN NULL ELSE ThirdVarint(ab, GetVarint32Ptr(d, ab.p, limit))

\* Lines 62-72: the three lengths and the offset just past them.
DecodeHeader(d, p, limit) ==
  IF ByteAt(d, p) < 128 /\ ByteAt(d, p + 1) < 128 /\ ByteAt(d, p + 2) < 128
  THEN [ok |-> TRUE, p |-> p + 3, shared |-> ByteAt(d, p),
        non_shared |-> ByteAt(d, p + 1), value_length |-> ByteAt(d, p + 2)]
  ELSE AfterSecondVarint(d, limit,
         AfterFirstVarint(d, limit, GetVarint32Ptr(d, p, limit)))

\* Lines 74-77.
CheckEntryFits(limit, h) ==
  IF ~h.ok THEN NULL
  ELSE IF ULt(limit - h.p, Add32(h.non_shared, h.value_length)) THEN NULL
  ELSE h

DecodeEntry(d, p, limit) ==
  IF p < 0 \/ limit - p < 3 THEN NULL
  ELSE CheckEntryFits(limit, DecodeHeader(d, p, limit))

(***************************************************************************)
(* The comparator (leveldb::BytewiseComparator): -1, 0 or 1                *)
(***************************************************************************)
RECURSIVE Compare(_, _)
Compare(a, b) ==
  IF a = <<>> THEN (IF b = <<>> THEN 0 ELSE -1)
  ELSE IF b = <<>> THEN 1
  ELSE IF Head(a) < Head(b) THEN -1
  ELSE IF Head(a) > Head(b) THEN 1
  ELSE Compare(Tail(a), Tail(b))

(***************************************************************************)
(* Block::Iter.  An iterator is a record of the members of the class; the  *)
(* Slice value_ is [base, off, size] with off relative to data_, and base  *)
(* "static" for the cleared Slice, which points at a string literal.       *)
(* hit_ is not a member: it records that CorruptionError ran during the    *)
(* call in progress.                                                       *)
(***************************************************************************)
ClearedSlice == [base |-> "static", off |-> 0, size |-> 0]

Iter(restarts, num_restarts) ==
  [kind |-> "iter", restarts_ |-> restarts, num_restarts_ |-> num_restarts,
   current_ |-> restarts, restart_index_ |-> num_restarts,
   restart_offset_ |-> 0, key_ |-> <<>>, value_ |-> ClearedSlice,
   status_ |-> "ok", hit_ |-> FALSE]

Valid(it) == ULt(it.current_, it.restarts_)

NextEntryOffset(it) == Add32(it.value_.off, it.value_.size)

GetRestartPoint(it, index) ==
  DecodeFixed32(data, it.restarts_ + index * sizeof_uint32_t)

\* SeekToRestartPoint that also clears status_.
SeekToRestartPointClearsStatus(it, index) ==
  [it EXCEPT !.key_ = <<>>,
             !.restart_index_ = index,
             !.restart_offset_ = -1,
             !.status_ = "ok",
             !.value_ = [base |-> "data", off |-> GetRestartPoint(it, index),
                         size |-> 0]]

SeekToRestartPoint(it, index) ==
  [it EXCEPT !.key_ = <<>>,
             !.restart_index_ = index,
             !.restart_offset_ = -1,
             !.value_ = [base |-> "data", off |-> GetRestartPoint(it, index),
                         size |-> 0]]

CorruptionError(it) ==
  [it EXCEPT !.current_ = it.restarts_,
             !.restart_index_ = it.num_restarts_,
             !.restart_offset_ = 0,
             !.status_ = "corruption",
             !.key_ = <<>>,
             !.value_ = ClearedSlice,
             !.hit_ = TRUE]

\* The loop of ParseNextKey that moves restart_index_ forward.
RECURSIVE AdvanceRestartIndex(_)
AdvanceRestartIndex(it) ==
  IF it.restart_index_ + 1 < it.num_restarts_
     /\ ULt(GetRestartPoint(it, it.restart_index_ + 1), it.current_)
  THEN AdvanceRestartIndex([it EXCEPT !.restart_index_ = @ + 1,
                                      !.restart_offset_ = 0])
  ELSE it

\* ParseEntry with key_.resize(shared) left out.
ParseEntryNoResize(it, h) ==
  IF ~h.ok \/ ULt(Len(it.key_), h.shared)
  THEN [ret |-> FALSE, it |-> CorruptionError(it)]
  ELSE [ret |-> TRUE,
        it  |-> AdvanceRestartIndex(
          [it EXCEPT
             !.key_ = it.key_ \o SubSeq(data, h.p + 1, h.p + h.non_shared),
             !.value_ = [base |-> "data", off |-> h.p + h.non_shared,
                         size |-> h.value_length]])]

\* Lines 257-270, on the entry header h decoded at it.current_.
\* The result is [ret |-> the bool ParseNextKey returns, it |-> the iterator].
ParseEntry(it, h) ==
  IF ~h.ok \/ ULt(Len(it.key_), h.shared)
  THEN [ret |-> FALSE, it |-> CorruptionError(it)]
  ELSE IF h.non_shared < 0 \/ h.value_length < 0
          \/ h.non_shared + h.value_length > it.restarts_ - h.p
       THEN \* key_.append and value_ reach past the entry region
            [ret |-> FALSE, it |-> [it EXCEPT !.kind = "undefined"]]
       ELSE [ret |-> TRUE,
             it  |-> AdvanceRestartIndex(
               [it EXCEPT
                  !.key_ = SubSeq(it.key_, 1, h.shared)
                           \o SubSeq(data, h.p + 1, h.p + h.non_shared),
                  !.value_ = [base |-> "data", off |-> h.p + h.non_shared,
                              size |-> h.value_length]])]

\* ParseNextKey whose end-of-block branch leaves restart_offset_ as it is.
ParseAtCurrentKeepsOffset(it) ==
  IF ~ULt(it.current_, it.restarts_)
  THEN [ret |-> FALSE,
        it  |-> [it EXCEPT !.current_ = it.restarts_,
                           !.restart_index_ = it.num_restarts_]]
  ELSE ParseEntry(it, DecodeEntry(data, it.current_, it.restarts_))

\* Lines 244-256, current_ and restart_offset_ already updated.
ParseAtCurrent(it) ==
  IF ~ULt(it.current_, it.restarts_)
  THEN [ret |-> FALSE,
        it  |-> [it EXCEPT !.current_ = it.restarts_,
                           !.restart_index_ = it.num_restarts_,
                           !.restart_offset_ = 0]]
  ELSE ParseEntry(it, DecodeEntry(data, it.current_, it.restarts_))

ParseNextKey(it) ==
  ParseAtCurrent([it EXCEPT !.current_ = NextEntryOffset(it),
                            !.restart_offset_ = Add32(it.restart_offset_, 1)])

key(it) == it.key_

value(it) ==
  IF it.value_.base = "static" THEN <<>>
  ELSE SubSeq(data, it.value_.off + 1, it.value_.off + it.value_.size)

status(it) == it.status_

IterNext(it) == ParseNextKey(it).it

\* The loop of Prev and of SeekToLast: ParseNextKey while it succeeds and the
\* entry it parsed ends before bound; r is what ParseNextKey returned.
RECURSIVE ParseWhileBefore(_, _)
\* WhileBefore with <= for <.
WhileBeforeInclusive(r, bound) ==
  IF r.ret /\ ULe(NextEntryOffset(r.it), bound)
  THEN ParseWhileBefore(r.it, bound)
  ELSE r.it

WhileBefore(r, bound) ==
  IF r.ret /\ ULt(NextEntryOffset(r.it), bound)
  THEN ParseWhileBefore(r.it, bound)
  ELSE r.it

ParseWhileBefore(it, bound) == WhileBefore(ParseNextKey(it), bound)

\* The first loop of Prev: the restart index to rescan from, -1 for none.
RECURSIVE PrevRestartIndexStrict(_, _, _)
\* PrevRestartIndex with > for >=.
PrevRestartIndexStrict(it, index, original) ==
  IF ULt(original, GetRestartPoint(it, index))
  THEN IF index = 0 THEN -1
       ELSE PrevRestartIndexStrict(it, index - 1, original)
  ELSE index

RECURSIVE PrevRestartIndex(_, _, _)
PrevRestartIndex(it, index, original) ==
  IF ULe(original, GetRestartPoint(it, index))
  THEN IF index = 0 THEN -1 ELSE PrevRestartIndex(it, index - 1, original)
  ELSE index

PrevFrom(it, index) ==
  IF index = -1
  THEN [it EXCEPT !.current_ = it.restarts_,
                  !.restart_index_ = it.num_restarts_,
                  !.restart_offset_ = 0]
  ELSE ParseWhileBefore(SeekToRestartPoint(it, index), it.current_)

IterPrev(it) ==
  PrevFrom(it, PrevRestartIndex(it, it.restart_index_, it.current_))

\* The binary search of Seek: [ok, left], ok FALSE when a restart entry does
\* not decode or has shared != 0.  h is the entry decoded at restart mid.
RECURSIVE SeekRestart(_, _, _, _)
\* SeekProbe with the test shared != 0 left out.
SeekProbeAnyShared(it, left, right, target, mid, h) ==
  IF ~h.ok
  THEN [ok |-> FALSE, left |-> left]
  ELSE IF Compare(SubSeq(data, h.p + 1, h.p + h.non_shared), target) < 0
       THEN SeekRestart(it, mid, right, target)
       ELSE SeekRestart(it, left, mid - 1, target)

SeekProbe(it, left, right, target, mid, h) ==
  IF ~h.ok \/ h.shared # 0
  THEN [ok |-> FALSE, left |-> left]
  ELSE IF Compare(SubSeq(data, h.p + 1, h.p + h.non_shared), target) < 0
       THEN SeekRestart(it, mid, right, target)
       ELSE SeekRestart(it, left, mid - 1, target)

SeekRestart(it, left, right, target) ==
  IF left < right
  THEN SeekProbe(it, left, right, target, (left + right + 1) \div 2,
                 DecodeEntry(data,
                             GetRestartPoint(it, (left + right + 1) \div 2),
                             it.restarts_))
  ELSE [ok |-> TRUE, left |-> left]

\* The linear search of Seek; r is what ParseNextKey returned.
RECURSIVE SeekLinear(_, _)
\* SeekLinearStep with > 0 for >= 0.
SeekLinearStepStrict(r, target) ==
  IF ~r.ret THEN r.it
  ELSE IF Compare(r.it.key_, target) > 0 THEN r.it
  ELSE SeekLinear(r.it, target)

SeekLinearStep(r, target) ==
  IF ~r.ret THEN r.it
  ELSE IF Compare(r.it.key_, target) >= 0 THEN r.it
  ELSE SeekLinear(r.it, target)

SeekLinear(it, target) == SeekLinearStep(ParseNextKey(it), target)

SeekFrom(it, b, target) ==
  IF ~b.ok THEN CorruptionError(it)
  ELSE SeekLinear(SeekToRestartPoint(it, b.left), target)

IterSeek(it, target) ==
  SeekFrom(it, SeekRestart(it, 0, it.num_restarts_ - 1, target), target)

IterSeekToFirst(it) == ParseNextKey(SeekToRestartPoint(it, 0)).it

IterSeekToLast(it) ==
  ParseWhileBefore(SeekToRestartPoint(it, it.num_restarts_ - 1), it.restarts_)

(***************************************************************************)
(* BlockMetrics: [file_number_, block_offset_, num_restarts_,              *)
(* bytes_per_restart_, metrics_], metrics_ a sequence of bytes.            *)
(***************************************************************************)
NoMetrics == [ok |-> FALSE]

BlockMetrics(file_number, block_offset, num_restarts, bytes_per_restart) ==
  [ok |-> TRUE, file_number_ |-> file_number, block_offset_ |-> block_offset,
   num_restarts_ |-> num_restarts, bytes_per_restart_ |-> bytes_per_restart,
   metrics_ |-> [i \in 1..(num_restarts * bytes_per_restart) |-> 0]]

Pow2(k) == IF k = 0 THEN 1 ELSE IF k = 1 THEN 2 ELSE IF k = 2 THEN 4
           ELSE IF k = 3 THEN 8 ELSE IF k = 4 THEN 16 ELSE IF k = 5 THEN 32
           ELSE IF k = 6 THEN 64 ELSE 128

\* byte & (1 << k) != 0, and byte | (1 << k).
TestBit(byte, k) == (byte \div Pow2(k)) % 2 = 1

OrBit(byte, k) == IF TestBit(byte, k) THEN byte ELSE byte + Pow2(k)

\* RecordAccess that assigns the bit instead of or-ing it in.
BlockMetricsRecordAccessAssign(m, restart_index, restart_offset) ==
  LET bitIdx  == UMod(restart_offset, m.bytes_per_restart_ * 8)
      byteIdx == restart_index * m.bytes_per_restart_ + bitIdx \div 8
  IN  [m EXCEPT !.metrics_[byteIdx + 1] = Pow2(bitIdx % 8)]

\* RecordAccess with byteIdx taken without the factor bytes_per_restart_.
BlockMetricsRecordAccessNoStride(m, restart_index, restart_offset) ==
  LET bitIdx  == UMod(restart_offset, m.bytes_per_restart_ * 8)
      byteIdx == restart_index + bitIdx \div 8
  IN  [m EXCEPT !.metrics_[byteIdx + 1] = OrBit(@, bitIdx % 8)]

BlockMetricsRecordAccess(m, restart_index, restart_offset) ==
  LET bitIdx  == UMod(restart_offset, m.bytes_per_restart_ * 8)
      byteIdx == restart_index * m.bytes_per_restart_ + bitIdx \div 8
  IN  [m EXCEPT !.metrics_[byteIdx + 1] = OrBit(@, bitIdx % 8)]

BlockMetricsIsHot(m, restart_index, restart_offset) ==
  LET bitIdx  == UMod(restart_offset, m.bytes_per_restart_ * 8)
      byteIdx == restart_index * m.bytes_per_restart_ + bitIdx \div 8
  IN  TestBit(m.metrics_[byteIdx + 1], bitIdx % 8)

\* Block::MetricsIter::RecordAccess, on the iterator the base call left.
RecordAccess(m, it) ==
  IF m.ok /\ Valid(it)
  THEN BlockMetricsRecordAccess(m, it.restart_index_, it.restart_offset_)
  ELSE m

(***************************************************************************)
(* Block::NewIterator and Block::NewMetricsIterator.  The error and the    *)
(* empty iterator (table/iterator.cc) are never valid, ignore every call   *)
(* and report the status they were made with.                              *)
(***************************************************************************)
NewErrorIterator ==
  [Iter(0, 0) EXCEPT !.kind = "error", !.status_ = "corruption"]

NewEmptyIterator == [Iter(0, 0) EXCEPT !.kind = "empty"]

NewIterator(b) ==
  IF b.size_ < 2 * sizeof_uint32_t THEN NewErrorIterator
  ELSE LET num_restarts == NumRestarts(data, b.size_)
       IN  IF num_restarts = 0 THEN NewEmptyIterator
           ELSE Iter(b.restart_offset_, num_restarts)

\* NewMetricsIterator with the test num_restarts == 0 left out.
NewMetricsIteratorNoEmpty(b, file_number, block_offset) ==
  IF b.size_ < 2 * sizeof_uint32_t
  THEN [it |-> NewErrorIterator, metrics |-> NoMetrics]
  ELSE [it |-> [Iter(b.restart_offset_, NumRestarts(data, b.size_))
                  EXCEPT !.kind = "metrics"],
        metrics |-> BlockMetrics(file_number, block_offset,
                                 NumRestarts(data, b.size_), kBytesPerRestart)]

\* [it |-> the iterator returned, metrics |-> what *metrics is set to].
NewMetricsIterator(b, file_number, block_offset) ==
  IF b.size_ < 2 * sizeof_uint32_t
  THEN [it |-> NewErrorIterator, metrics |-> NoMetrics]
  ELSE LET num_restarts == NumRestarts(data, b.size_)
       IN  IF num_restarts = 0
           THEN [it |-> NewEmptyIterator, metrics |-> NoMetrics]
           ELSE [it |-> [Iter(b.restart_offset_, num_restarts)
                           EXCEPT !.kind = "metrics"],
                 metrics |-> BlockMetrics(file_number, block_offset,
                                          num_restarts, kBytesPerRestart)]

\* Block::IsHot(iter, bm), its preconditions asserted by the caller.
BlockIsHot(it, m) == BlockMetricsIsHot(m, it.restart_index_, it.restart_offset_)

\* Block::MetricsIter: the base call, then RecordAccess.
Recorded(m, it) == [it |-> it, metrics |-> RecordAccess(m, it)]

MetricsIterNext(it, m) == Recorded(m, IterNext(it))

MetricsIterPrev(it, m) == Recorded(m, IterPrev(it))

MetricsIterSeek(it, m, target) == Recorded(m, IterSeek(it, target))

MetricsIterSeekToFirst(it, m) == Recorded(m, IterSeekToFirst(it))

MetricsIterSeekToLast(it, m) == Recorded(m, IterSeekToLast(it))

(***************************************************************************)
(* BlockMetrics: persistence and merging.  file_number_ and block_offset_  *)
(* are uint64_t; the model uses values below 2^31, and num_restarts_ and   *)
(* bytes_per_restart_ small enough for the bitmap to be written out.       *)
(***************************************************************************)
PutFixed64(n) ==
  << n % 256, (n \div 256) % 256, (n \div 65536) % 256,
     (n \div 16777216) % 256, 0, 0, 0, 0 >>

\* The keys of the model have bytes off+4 .. off+7 zero and byte off+3
\* below 128.
DecodeFixed64(d, off) ==
  ByteAt(d, off) + 256 * ByteAt(d, off + 1) + 65536 * ByteAt(d, off + 2)
    + 16777216 * ByteAt(d, off + 3)

RECURSIVE PutVarint32(_)
PutVarint32(v) ==
  IF v < 128 THEN << v >> ELSE << (v % 128) + 128 >> \o PutVarint32(v \div 128)

\* GetVarint32(Slice* input, uint32_t* value): on success input is advanced.
GetVarint32(input) ==
  LET r == GetVarint32Ptr(input, 0, Len(input))
  IN  IF r.ok
      THEN [ok |-> TRUE, value |-> r.value,
            rest |-> SubSeq(input, r.p + 1, Len(input))]
      ELSE [ok |-> FALSE, value |-> 0, rest |-> input]

\* What uninitialised bytes of a new char[] may hold.
JunkBytes == {0, 255}

\* BlockMetrics(file_number, block_offset, num_restarts, bytes_per_restart,
\* data) with the assert compiled out: every instance the constructor can
\* leave.  A short data leaves the tail of metrics_ uninitialised; a long
\* data makes memcpy write past the end of metrics_ (overrun).
BlockMetricsFromData(file_number, block_offset, num_restarts, bytes_per_restart, d) ==
  IF Len(d) = num_restarts * bytes_per_restart
  THEN { [m |-> [BlockMetrics(file_number, block_offset, num_restarts,
                              bytes_per_restart) EXCEPT !.metrics_ = d],
          overrun |-> FALSE] }
  ELSE IF Len(d) < num_restarts * bytes_per_restart
  THEN { [m |-> [BlockMetrics(file_number, block_offset, num_restarts,
                              bytes_per_restart)
                   EXCEPT !.metrics_ =
                     [i \in 1..(num_restarts * bytes_per_restart) |->
                        IF i <= Len(d) THEN d[i] ELSE junk[i]]],
          overrun |-> FALSE] :
         junk \in [(Len(d) + 1)..(num_restarts * bytes_per_restart)
                     -> JunkBytes] }
  ELSE { [m |-> [BlockMetrics(file_number, block_offset, num_restarts,
                              bytes_per_restart)
                   EXCEPT !.metrics_ =
                     SubSeq(d, 1, num_restarts * bytes_per_restart)],
          overrun |-> TRUE] }

NoInstance == { [m |-> NoMetrics, overrun |-> FALSE] }

\* The second varint and the constructor call of Create, v1 the result of
\* the first GetVarint32.
CreateAfterNumRestarts(file_number, block_offset, v1, v2) ==
  IF ~v2.ok THEN NoInstance
  ELSE BlockMetricsFromData(file_number, block_offset, v1.value, v2.value,
                            v2.rest)

\* BlockMetrics::Create(file_number, block_offset, db_value)
CreateFromValue(file_number, block_offset, db_value) ==
  IF ~GetVarint32(db_value).ok THEN NoInstance
  ELSE CreateAfterNumRestarts(file_number, block_offset, GetVarint32(db_value),
                              GetVarint32(GetVarint32(db_value).rest))

\* BlockMetrics::Create(db_key, db_value)
Create(db_key, db_value) ==
  IF Len(db_key) # 16 THEN NoInstance
  ELSE CreateFromValue(DecodeFixed64(db_key, 0), DecodeFixed64(db_key, 8),
                       db_value)

GetDBKey(m) == PutFixed64(m.file_number_) \o PutFixed64(m.bytes_per_restart_)

\* GetDBValue with the two varints in the other order.
GetDBValueSwapped(m) ==
  PutVarint32(m.bytes_per_restart_) \o PutVarint32(m.num_restarts_)
    \o m.metrics_

GetDBValue(m) ==
  PutVarint32(m.num_restarts_) \o PutVarint32(m.bytes_per_restart_)
    \o m.metrics_

IsCompatible(a, b) ==
  /\ b.ok
  /\ b.num_restarts_ = a.num_restarts_
  /\ b.bytes_per_restart_ = a.bytes_per_restart_
  /\ b.file_number_ = a.file_number_
  /\ b.block_offset_ = a.block_offset_

\* x | y on bytes, bit k upwards.
RECURSIVE OrByte(_, _, _)
OrByte(x, y, k) ==
  IF k = 8 THEN x
  ELSE OrByte(IF TestBit(y, k) THEN OrBit(x, k) ELSE x, y, k + 1)

\* Join whose loop stops at num_restarts_.
JoinShortLoop(a, b) ==
  [a EXCEPT !.metrics_ =
     [i \in DOMAIN a.metrics_ |->
        IF i <= a.num_restarts_ THEN OrByte(a.metrics_[i], b.metrics_[i], 0)
        ELSE a.metrics_[i]]]

Join(a, b) ==
  [a EXCEPT !.metrics_ =
     [i \in 1..(a.num_restarts_ * a.bytes_per_restart_) |->
        OrByte(a.metrics_[i], b.metrics_[i], 0)]]

(***************************************************************************)
(* The buffers the model starts from.                                      *)
(*  - "wf": every well-formed block of at most MaxEntries entries with     *)
(*    keys in Keys, any set of restart points, and two styles: the longest *)
(*    shared prefix with one-byte lengths, or no sharing with the shared   *)
(*    length written as a two-byte varint;                                 *)
(*  - "damaged": a well-formed block with one byte overwritten;            *)
(*  - "raw": zero bytes followed by a 4-byte trailer, and buffers too      *)
(*    short to hold a trailer.                                             *)
(* Blocks are laid out as table/block_builder.cc lays them out.            *)
(***************************************************************************)
Keys == { <<1>>, <<1, 1>>, <<1, 2>>, <<2>> }

Targets == Keys \cup { <<>>, <<1, 1, 1>>, <<3>> }

DamageBytes == {0, 2, 64, 99, 128, 255}

FileNumbers == {7}

BlockOffsets == {4096}

Min(a, b) == IF a < b THEN a ELSE b

RECURSIVE CommonPrefix(_, _)
CommonPrefix(a, b) ==
  IF a # <<>> /\ b # <<>> /\ Head(a) = Head(b)
  THEN 1 + CommonPrefix(Tail(a), Tail(b))
  ELSE 0

ValueOf(i) == IF i % 2 = 1 THEN <<100 + i>> ELSE <<>>

SharedOf(keys, restart, cap, i) ==
  IF restart[i] THEN 0 ELSE Min(cap, CommonPrefix(keys[i - 1], keys[i]))

EntryBytes(keys, restart, cap, wide, i) ==
  LET sh == SharedOf(keys, restart, cap, i)
  IN  (IF wide THEN <<128 + sh, 0>> ELSE <<sh>>)
        \o <<Len(keys[i]) - sh, Len(ValueOf(i))>>
        \o SubSeq(keys[i], sh + 1, Len(keys[i]))
        \o ValueOf(i)

RECURSIVE EntryRegion(_, _, _, _, _)
EntryRegion(keys, restart, cap, wide, n) ==
  IF n = 0 THEN <<>>
  ELSE EntryRegion(keys, restart, cap, wide, n - 1)
         \o EntryBytes(keys, restart, cap, wide, n)

RECURSIVE RestartArray(_, _, _, _, _)
RestartArray(keys, restart, cap, wide, n) ==
  IF n = 0 THEN <<>>
  ELSE RestartArray(keys, restart, cap, wide, n - 1)
         \o (IF restart[n]
             THEN PutFixed32(Len(EntryRegion(keys, restart, cap, wide, n - 1)))
             ELSE <<>>)

BuildBlock(keys, restart, cap, wide) ==
  LET n   == Len(keys)
      arr == IF n = 0 THEN PutFixed32(0)
             ELSE RestartArray(keys, restart, cap, wide, n)
  IN  EntryRegion(keys, restart, cap, wide, n) \o arr
        \o PutFixed32(Len(arr) \div sizeof_uint32_t)

\* The entries a well-formed block holds: key, value, offset, and whether
\* the entry is a restart point.
EntriesOf(keys, restart, cap, wide) ==
  [i \in 1..Len(keys) |->
     [key |-> keys[i], value |-> ValueOf(i), restart |-> restart[i],
      off |-> Len(EntryRegion(keys, restart, cap, wide, i - 1))]]

KeySeqs(n) ==
  { s \in [1..n -> Keys] : \A i \in 1..(n - 1) : Compare(s[i], s[i + 1]) <= 0 }

RestartFlags(n) == { f \in [1..n -> BOOLEAN] : n >= 1 => f[1] }

Styles == { [cap |-> 2, wide |-> FALSE], [cap |-> 0, wide |-> TRUE] }

WellFormedInputs ==
  { [family |-> "wf",
     data |-> BuildBlock(k, r, st.cap, st.wide),
     entries |-> EntriesOf(k, r, st.cap, st.wide)] :
      <<k, r, st>> \in UNION { KeySeqs(n) \X RestartFlags(n) \X Styles :
                               n \in 0..MaxEntries } }

DamagedKeys == << <<1>>, <<1, 1>>, <<1, 1, 1>> >>

DamagedBase(r) == BuildBlock(DamagedKeys, r, Len(DamagedKeys), FALSE)

DamagedInputs ==
  { [family |-> "damaged",
     data |-> [DamagedBase(x[1]) EXCEPT ![x[2]] = x[3]],
     entries |-> <<>>] :
      x \in { y \in RestartFlags(Len(DamagedKeys))
                      \X (1..(12 * Len(DamagedKeys))) \X DamageBytes :
                /\ y[2] <= Len(DamagedBase(y[1]))
                /\ DamagedBase(y[1])[y[2]] # y[3] } }

Zeros(n) == [i \in 1..n |-> 0]

RawInputs ==
  { [family |-> "raw", data |-> Zeros(n) \o t, entries |-> <<>>] :
      <<n, t>> \in (0..MaxBody) \X
                   ( { <<b0, b12, b12, b3>> :
                         <<b0, b12, b3>> \in {0, 1, 2, 3, 255} \X {0, 255}
                                               \X {0, 64, 128, 192, 255} }
                     \cup { <<>>, <<0>>, <<1, 0, 0>> } ) }

Inputs == WellFormedInputs \cup DamagedInputs \cup RawInputs

(***************************************************************************)
(* State                                                                   *)
(***************************************************************************)
NoIter == [Iter(0, 0) EXCEPT !.kind = "none"]

NoSnap == [ok |-> FALSE]

Snap(it) ==
  [ok |-> TRUE, current_ |-> it.current_, key |-> key(it), value |-> value(it),
   next |-> NextEntryOffset(it)]

H0 == [op |-> "none", target |-> <<>>, anchor |-> "none", count |-> 0,
       snap |-> NoSnap, was_corrupt |-> FALSE, entered |-> FALSE]

NoOut == [m |-> NoMetrics, overrun |-> FALSE]

MH0 == [op |-> "none", i |-> 0, j |-> 0, r |-> 0, s |-> 0, calls |-> 0,
        before |-> <<>>, out |-> NoOut]

NoCall == [f |-> "none"]

NoRet == [done |-> FALSE]

\* No stand-alone BlockMetrics exists and no static function is called.
MetricsIdle == bm = <<>> /\ acc = <<>> /\ mh = MH0

CallIdle == call = NoCall /\ ret = NoRet

InitFrom(S) ==
  \E b \in S :
    /\ data = b.data
    /\ gen = [family |-> b.family, entries |-> b.entries]
    /\ blk = BlockCtor(b.data)
    /\ iter = NoIter
    /\ metrics = NoMetrics
    /\ hist = H0
    /\ MetricsIdle
    /\ CallIdle

Init == InitFrom(Inputs)

\* The restart array and the trailer lie inside the buffer.
RestartArrayFits(d) ==
  /\ Len(d) >= sizeof_uint32_t
  /\ NumRestarts(d, Len(d)) >= 0
  /\ NumRestarts(d, Len(d)) <= (Len(d) - sizeof_uint32_t) \div sizeof_uint32_t

\* A call on the iterator is modelled when the iterator is the error or the
\* empty iterator, or a Block::Iter whose restart array is inside the buffer
\* (otherwise GetRestartPoint reads past the buffer).
Callable ==
  \/ iter.kind \in {"error", "empty"}
  \/ iter.kind \in {"iter", "metrics"} /\ RestartArrayFits(data)

Begin(it) == [it EXCEPT !.hit_ = FALSE]

HistAfter(op, target, it2) ==
  [op     |-> op,
   target |-> target,
   anchor |-> IF op = "SeekToFirst" \/ (op = "Next" /\ hist.anchor = "first")
              THEN "first"
              ELSE IF op = "SeekToLast" \/ (op = "Prev" /\ hist.anchor = "last")
              THEN "last" ELSE "none",
   count  |-> IF (op = "Next" /\ hist.anchor = "first")
                 \/ (op = "Prev" /\ hist.anchor = "last")
              THEN hist.count + 1 ELSE 0,
   snap   |-> IF op = "Next" THEN Snap(iter)
              ELSE IF op = "Prev" /\ hist.op = "Next" THEN hist.snap
              ELSE NoSnap,
   was_corrupt |-> hist.was_corrupt \/ it2.status_ = "corruption",
   entered     |-> ~hist.was_corrupt /\ it2.status_ = "corruption"]

(***************************************************************************)
(* Actions                                                                 *)
(***************************************************************************)
CallNewIterator ==
  /\ iter.kind = "none"
  /\ iter' = NewIterator(blk)
  /\ hist' = HistAfter("NewIterator", <<>>, iter')
  /\ UNCHANGED <<data, blk, metrics, gen>>
  /\ UNCHANGED <<metricsVars, callVars>>

CallNewMetricsIterator ==
  /\ iter.kind = "none"
  /\ blk.size_ >= 2 * sizeof_uint32_t => RestartArrayFits(data)
  /\ \E fn \in FileNumbers, bo \in BlockOffsets :
       /\ iter' = NewMetricsIterator(blk, fn, bo).it
       /\ metrics' = NewMetricsIterator(blk, fn, bo).metrics
  /\ hist' = HistAfter("NewMetricsIterator", <<>>, iter')
  /\ UNCHANGED <<data, blk, gen>>
  /\ UNCHANGED <<metricsVars, callVars>>

\* The iterator and the metrics after a call: it2 is what Block::Iter's
\* method leaves, m2 what Block::MetricsIter's override leaves.
Returns(op, target, it2, m2) ==
  /\ iter' = (IF iter.kind \in {"error", "empty"} THEN iter
              ELSE IF iter.kind = "metrics" THEN m2.it ELSE it2)
  /\ metrics' = (IF iter.kind = "metrics" THEN m2.metrics ELSE metrics)
  /\ hist' = HistAfter(op, target, iter')
  /\ UNCHANGED <<data, blk, gen>>
  /\ UNCHANGED <<metricsVars, callVars>>

CallNext ==
  /\ Callable /\ Valid(iter)
  /\ Returns("Next", <<>>, IterNext(Begin(iter)),
             MetricsIterNext(Begin(iter), metrics))

CallPrev ==
  /\ Callable /\ Valid(iter)
  /\ Returns("Prev", <<>>, IterPrev(Begin(iter)),
             MetricsIterPrev(Begin(iter), metrics))

CallSeek ==
  /\ Callable
  /\ \E target \in Targets :
       Returns("Seek", target, IterSeek(Begin(iter), target),
               MetricsIterSeek(Begin(iter), metrics, target))

CallSeekToFirst ==
  /\ Callable
  /\ Returns("SeekToFirst", <<>>, IterSeekToFirst(Begin(iter)),
             MetricsIterSeekToFirst(Begin(iter), metrics))

CallSeekToLast ==
  /\ Callable
  /\ Returns("SeekToLast", <<>>, IterSeekToLast(Begin(iter)),
             MetricsIterSeekToLast(Begin(iter), metrics))

Next ==
  \/ CallNewIterator
  \/ CallNewMetricsIterator
  \/ CallNext
  \/ CallPrev
  \/ CallSeek
  \/ CallSeekToFirst
  \/ CallSeekToLast

Spec == Init /\ [][Next]_vars

(***************************************************************************)
(* MetricsSpec: three BlockMetrics instances made by the zeroing           *)
(* constructor, then RecordAccess, Join and the round trip through         *)
(* GetDBKey / GetDBValue / Create in any order.  Instances 1 and 2 are     *)
(* made for the same block; instance 3 is made for the same block or       *)
(* differs from them in one field.                                         *)
(***************************************************************************)
MaxAccesses == 2

Offsets == {0, 16, -1}

Shapes == { [nr |-> 2, bpr |-> 2], [nr |-> 1, bpr |-> 1] }

ThirdInstances(sh) ==
  { BlockMetrics(7, 4096, sh.nr, sh.bpr),
    BlockMetrics(7, 8192, sh.nr, sh.bpr),
    BlockMetrics(8, 4096, sh.nr, sh.bpr),
    BlockMetrics(7, 4096, 3 - sh.nr, sh.bpr),
    BlockMetrics(7, 4096, sh.nr, 3 - sh.bpr) }

BlockIdle ==
  /\ data = <<>> /\ gen = [family |-> "none", entries |-> <<>>]
  /\ blk = BlockCtor(<<>>) /\ iter = NoIter /\ metrics = NoMetrics /\ hist = H0

MetricsInit ==
  /\ \E sh \in Shapes : \E third \in ThirdInstances(sh) :
       bm = << BlockMetrics(7, 4096, sh.nr, sh.bpr),
               BlockMetrics(7, 4096, sh.nr, sh.bpr), third >>
  /\ acc = << {}, {}, {} >>
  /\ mh = MH0
  /\ BlockIdle
  /\ CallIdle

CallRecordAccess ==
  /\ mh.calls < MaxAccesses
  /\ \E i \in DOMAIN bm, s \in Offsets :
       \E r \in 0..(bm[i].num_restarts_ - 1) :
         /\ bm' = [bm EXCEPT ![i] = BlockMetricsRecordAccess(@, r, s)]
         /\ acc' = [acc EXCEPT ![i] = @ \cup {<<r, s>>}]
         /\ mh' = [op |-> "RecordAccess", i |-> i, j |-> 0, r |-> r, s |-> s,
                   calls |-> mh.calls + 1, before |-> <<>>, out |-> NoOut]
  /\ UNCHANGED <<blockVars, callVars>>

\* bm[i].Join(bm[j]); Join asserts IsCompatible.
CallJoin ==
  /\ \E i \in DOMAIN bm, j \in DOMAIN bm :
       /\ IsCompatible(bm[i], bm[j])
       /\ bm' = [bm EXCEPT ![i] = Join(bm[i], bm[j])]
       /\ acc' = [acc EXCEPT ![i] = @ \cup acc[j]]
       /\ mh' = [op |-> "Join", i |-> i, j |-> j, r |-> 0, s |-> 0,
                 calls |-> mh.calls, before |-> <<bm[i], bm[j]>>,
                 out |-> NoOut]
  /\ UNCHANGED <<blockVars, callVars>>

\* Create(bm[i].GetDBKey(), bm[i].GetDBValue())
CallReparse ==
  /\ \E i \in DOMAIN bm :
       \E out \in Create(GetDBKey(bm[i]), GetDBValue(bm[i])) :
         mh' = [op |-> "Create", i |-> i, j |-> 0, r |-> 0, s |-> 0,
                calls |-> mh.calls, before |-> <<>>, out |-> out]
  /\ UNCHANGED <<bm, acc, blockVars, callVars>>

MetricsNext == CallRecordAccess \/ CallJoin \/ CallReparse

MetricsSpec == MetricsInit /\ [][MetricsNext]_vars

(***************************************************************************)
(* Vocabulary of the properties                                            *)
(***************************************************************************)
WellFormed == gen.family = "wf"

NumEntries == Len(gen.entries)

NumRegions == Cardinality({ i \in 1..NumEntries : gen.entries[i].restart })

IsBlockIter == iter.kind \in {"iter", "metrics"}

\* The iterator is valid on the i-th entry (counted from 1) of a well-formed
\* block, with that entry's full key and value.
OnEntry(i) ==
  /\ Valid(iter)
  /\ iter.current_ = gen.entries[i].off
  /\ key(iter) = gen.entries[i].key
  /\ value(iter) = gen.entries[i].value

AtEnd == ~Valid(iter) /\ status(iter) = "ok"

\* The first entry with key >= t, 0 when there is none.
FirstGE(t) ==
  IF \E i \in 1..NumEntries : Compare(gen.entries[i].key, t) >= 0
  THEN CHOOSE i \in 1..NumEntries :
         /\ Compare(gen.entries[i].key, t) >= 0
         /\ \A j \in 1..(i - 1) : Compare(gen.entries[j].key, t) < 0
  ELSE 0

(***************************************************************************)
(* C1: on a well-formed block, Seek(t) from any iterator state leaves the  *)
(* iterator on the first entry with key >= t, with that entry's key and    *)
(* value and status ok; when no entry has key >= t it ends invalid with    *)
(* status ok.                                                              *)
(***************************************************************************)
C1_SeekFirstGE ==
  (WellFormed /\ IsBlockIter /\ hist.op = "Seek") =>
    /\ status(iter) = "ok"
    /\ IF FirstGE(hist.target) = 0 THEN AtEnd
       ELSE OnEntry(FirstGE(hist.target))

\* Seek landed past the first entry of the second or a later region, on a
\* key greater than the probe.
C1_Witness ==
  /\ WellFormed /\ IsBlockIter /\ hist.op = "Seek"
  /\ NumRegions >= 2
  /\ FirstGE(hist.target) >= 3
  /\ OnEntry(FirstGE(hist.target))
  /\ ~gen.entries[FirstGE(hist.target)].restart
  /\ key(iter) # hist.target

(***************************************************************************)
(* C2: on a well-formed block with n >= 1 entries, SeekToFirst followed by *)
(* k Next calls is on entry k (counted from 0) with its key and value for  *)
(* k <= n-1, and the n-th Next leaves the iterator invalid with status ok. *)
(***************************************************************************)
C2_ForwardScan ==
  (WellFormed /\ IsBlockIter /\ NumEntries >= 1 /\ hist.anchor = "first") =>
    /\ status(iter) = "ok"
    /\ hist.count <= NumEntries
    /\ IF hist.count < NumEntries THEN OnEntry(hist.count + 1) ELSE AtEnd

\* The scan ran off the end of a block of three or more entries in two or
\* more regions.
C2_Witness ==
  /\ WellFormed /\ IsBlockIter /\ hist.anchor = "first"
  /\ NumEntries >= 3 /\ NumRegions >= 2
  /\ hist.count = NumEntries /\ AtEnd

(***************************************************************************)
(* C3: on a well-formed block with n >= 1 entries, SeekToLast is on entry  *)
(* n-1, each of the next n-1 Prev calls moves to the entry just before     *)
(* (across restart regions too), and one more Prev leaves the iterator     *)
(* invalid with status ok.                                                 *)
(***************************************************************************)
C3_BackwardScan ==
  (WellFormed /\ IsBlockIter /\ NumEntries >= 1 /\ hist.anchor = "last") =>
    /\ status(iter) = "ok"
    /\ hist.count <= NumEntries
    /\ IF hist.count < NumEntries THEN OnEntry(NumEntries - hist.count)
       ELSE AtEnd

\* Prev stepped back from the first entry of a block of three or more
\* entries in two or more regions.
C3_Witness ==
  /\ WellFormed /\ IsBlockIter /\ hist.anchor = "last"
  /\ NumEntries >= 3 /\ NumRegions >= 2
  /\ hist.count = NumEntries /\ AtEnd

(***************************************************************************)
(* C4: on a well-formed block, Next from an entry that is not the last     *)
(* one followed by Prev leaves the iterator valid on the entry it started  *)
(* from: same current_, same key(), same value().                          *)
(***************************************************************************)
C4_NextThenPrev ==
  (WellFormed /\ IsBlockIter /\ hist.op = "Prev" /\ hist.snap.ok) =>
    /\ Valid(iter)
    /\ iter.current_ = hist.snap.current_
    /\ key(iter) = hist.snap.key
    /\ value(iter) = hist.snap.value

\* Next crossed into a later restart region and Prev came back.
C4_Witness ==
  /\ WellFormed /\ IsBlockIter /\ hist.op = "Prev" /\ hist.snap.ok
  /\ Valid(iter)
  /\ \E i \in 2..(NumEntries - 1) :
       /\ OnEntry(i)
       /\ gen.entries[i + 1].restart

(***************************************************************************)
(* C5: once a Block iterator has entered the corruption state (status()    *)
(* is corruption), Valid() is false after every later Seek, SeekToFirst    *)
(* or SeekToLast.                                                          *)
(***************************************************************************)
C5_PermanentlyInvalid ==
  (IsBlockIter /\ hist.was_corrupt
     /\ hist.op \in {"Seek", "SeekToFirst", "SeekToLast"}) => ~Valid(iter)

(***************************************************************************)
(* C6: once status() has been corruption it is corruption after every      *)
(* later call; no call changes it back to ok.                              *)
(***************************************************************************)
C6_StatusSticky ==
  (iter.kind # "none" /\ hist.was_corrupt) => status(iter) = "corruption"

\* The iterator was repositioned and stepped after the corruption was seen,
\* and still reports it.
C6_Witness ==
  /\ IsBlockIter /\ hist.was_corrupt /\ ~hist.entered
  /\ hist.op = "Next" /\ Valid(iter)
  /\ status(iter) = "corruption"

(***************************************************************************)
(* C7: a call that parses an entry whose header does not decode or whose   *)
(* shared length exceeds the length of the key built so far, and a Seek    *)
(* whose binary search probes a restart entry that does not decode or has  *)
(* shared != 0, returns with Valid() false, status() corruption, current_  *)
(* equal to the restart-array offset and key and value cleared.            *)
(***************************************************************************)
\* The entry at offset off cannot follow a key of length keylen.
BadEntryAt(off, keylen) ==
  \/ ~DecodeEntry(data, off, iter.restarts_).ok
  \/ ULt(keylen, DecodeEntry(data, off, iter.restarts_).shared)

\* The entry at restart point index is not a restart entry.
BadRestartEntry(index) ==
  \/ ~DecodeEntry(data, GetRestartPoint(iter, index), iter.restarts_).ok
  \/ DecodeEntry(data, GetRestartPoint(iter, index), iter.restarts_).shared # 0

InCorruptionState ==
  /\ ~Valid(iter)
  /\ status(iter) = "corruption"
  /\ iter.current_ = iter.restarts_
  /\ key(iter) = <<>>
  /\ value(iter) = <<>>
  /\ iter.value_ = ClearedSlice

C7_CorruptionLeavesNoEntry ==
  (IsBlockIter /\ RestartArrayFits(data)) =>
    /\ iter.hit_ => InCorruptionState
    /\ Valid(iter) => ~BadEntryAt(iter.current_, 0) \/ Len(key(iter)) > 0
    /\ Valid(iter) => DecodeEntry(data, iter.current_, iter.restarts_).ok
    /\ (hist.op = "SeekToFirst"
          /\ ULt(GetRestartPoint(iter, 0), iter.restarts_)
          /\ BadEntryAt(GetRestartPoint(iter, 0), 0)) => InCorruptionState
    /\ (hist.op = "Next"
          /\ ULt(hist.snap.next, iter.restarts_)
          /\ BadEntryAt(hist.snap.next, Len(hist.snap.key))) => InCorruptionState
    /\ (hist.op = "Seek"
          /\ iter.num_restarts_ >= 2
          /\ BadRestartEntry(iter.num_restarts_ \div 2)) => InCorruptionState

\* Next met an entry that decodes but shares more bytes than the key before
\* it has.
C7_Witness ==
  /\ IsBlockIter /\ RestartArrayFits(data)
  /\ hist.op = "Next"
  /\ ULt(hist.snap.next, iter.restarts_)
  /\ DecodeEntry(data, hist.snap.next, iter.restarts_).ok
  /\ BadEntryAt(hist.snap.next, Len(hist.snap.key))
  /\ InCorruptionState

(***************************************************************************)
(* C8: for every buffer with size < 8 or whose restart array and trailer,  *)
(* (1 + num_restarts) * 4 bytes, do not fit in the buffer (also when that  *)
(* product or the subtraction wraps around in 32 bits),                    *)
(* the Block is in the error state and the iterator made for it is the     *)
(* error iterator: status corruption, never valid.                         *)
(***************************************************************************)
BlockInError(b) == b.size_ < 2 * sizeof_uint32_t

BadTrailer(d) == Len(d) < 2 * sizeof_uint32_t \/ ~RestartArrayFits(d)

C8_BadTrailerRejected ==
  (iter.kind # "none" /\ BadTrailer(data)) =>
    /\ BlockInError(blk)
    /\ iter.kind = "error"
    /\ status(iter) = "corruption"
    /\ ~Valid(iter)

(***************************************************************************)
(* C9: NewIterator and NewMetricsIterator return the same variant for the  *)
(* same block: the error iterator (status corruption) when the block is in *)
(* the error state, the empty iterator (never valid, status ok) when       *)
(* num_restarts is 0, otherwise a Block iterator that is invalid with      *)
(* status ok until positioned.  NewMetricsIterator sets *metrics exactly   *)
(* in the third case, to an instance with the block's num_restarts,        *)
(* bytes_per_restart 2 and an all-zero bitmap.                             *)
(***************************************************************************)
Fresh == hist.op \in {"NewIterator", "NewMetricsIterator"}

C9_SameVariant ==
  (iter.kind # "none") =>
    IF BlockInError(blk)
    THEN /\ iter.kind = "error" /\ status(iter) = "corruption"
         /\ ~Valid(iter) /\ ~metrics.ok
    ELSE IF NumRestarts(data, blk.size_) = 0
    THEN /\ iter.kind = "empty" /\ status(iter) = "ok"
         /\ ~Valid(iter) /\ ~metrics.ok
    ELSE /\ IsBlockIter
         /\ Fresh => ~Valid(iter) /\ status(iter) = "ok"
         /\ Fresh => (metrics.ok <=> hist.op = "NewMetricsIterator")
         /\ metrics.ok <=> iter.kind = "metrics"
         /\ metrics.ok =>
              /\ metrics.num_restarts_ = NumRestarts(data, blk.size_)
              /\ metrics.bytes_per_restart_ = 2
              /\ Len(metrics.metrics_) = 2 * NumRestarts(data, blk.size_)
              /\ Fresh => \A i \in DOMAIN metrics.metrics_ :
                             metrics.metrics_[i] = 0

\* NewMetricsIterator made a metrics iterator over a block of two or more
\* restart regions.
C9_Witness ==
  /\ hist.op = "NewMetricsIterator"
  /\ iter.kind = "metrics" /\ ~Valid(iter)
  /\ metrics.ok /\ metrics.num_restarts_ >= 2

(***************************************************************************)
(* C10: a call of Next, Prev, Seek, SeekToFirst or SeekToLast on a         *)
(* metrics-recording iterator sets exactly the bit of (restart_index_,     *)
(* restart_offset_ mod 16) of the position it ends on when it ends valid,  *)
(* and leaves the bitmap unchanged when it ends invalid.                   *)
(***************************************************************************)
\* Bit s of the 16-bit window of restart region r.
SlotBit(m, r, s) == (m.metrics_[2 * r + (s \div 8) + 1] \div Pow2(s % 8)) % 2 = 1

C10_Step ==
  (iter.kind = "metrics") =>
    /\ metrics'.ok
    /\ DOMAIN metrics'.metrics_ = DOMAIN metrics.metrics_
    /\ [metrics' EXCEPT !.metrics_ = <<>>] = [metrics EXCEPT !.metrics_ = <<>>]
    /\ \A r \in 0..(metrics.num_restarts_ - 1), s \in 0..15 :
         SlotBit(metrics', r, s) <=>
           \/ SlotBit(metrics, r, s)
           \/ /\ Valid(iter')
              /\ r = iter'.restart_index_
              /\ s = UMod(iter'.restart_offset_, 16)

C10_RecordsFinalPosition == [][C10_Step]_vars

\* Seek scanned over an entry and ended on the second entry of the second
\* region: that one bit is set and no other.
C10_Witness ==
  /\ iter.kind = "metrics" /\ hist.op = "Seek" /\ Valid(iter)
  /\ iter.restart_index_ >= 1 /\ iter.restart_offset_ >= 1
  /\ Cardinality({ rs \in (0..(metrics.num_restarts_ - 1)) \X (0..15) :
                     SlotBit(metrics, rs[1], rs[2]) }) = 1

(***************************************************************************)
(* C11: for a BlockMetrics created zeroed, IsHot(r, s) is true iff some    *)
(* RecordAccess(r, s2) was made on it (or on an instance joined into it)   *)
(* with s2 congruent to s modulo bytes_per_restart * 8: a recorded slot is *)
(* hot, offsets beyond the window fold onto the same bit, bits are never   *)
(* cleared, and an access in one region makes no slot of another hot.      *)
(***************************************************************************)
SlotProbes == (0..17) \cup {-1, -2}

C11_HotIffRecorded ==
  \A i \in DOMAIN bm :
    \A r \in 0..(bm[i].num_restarts_ - 1), s \in SlotProbes :
      BlockMetricsIsHot(bm[i], r, s) <=>
        \E a \in acc[i] :
          /\ a[1] = r
          /\ UMod(a[2], bm[i].bytes_per_restart_ * 8)
               = UMod(s, bm[i].bytes_per_restart_ * 8)

\* RecordAccess(r, 16) on a 16-slot instance that already held another
\* access: slot 0 of region r is hot and the earlier bit is still set.
C11_Witness ==
  /\ mh.op = "RecordAccess" /\ mh.s = 16
  /\ bm[mh.i].bytes_per_restart_ = 2
  /\ BlockMetricsIsHot(bm[mh.i], mh.r, 0)
  /\ \E a \in acc[mh.i] : a[1] # mh.r /\ BlockMetricsIsHot(bm[mh.i], a[1], a[2])

(***************************************************************************)
(* C12: a.Join(b) on compatible instances makes a's bitmap the bitwise OR  *)
(* of the two bitmaps and changes neither b nor a's other fields; the      *)
(* result does not depend on the order or grouping of the operands,        *)
(* a.Join(a) and a second join of the same operand change nothing, and a   *)
(* slot is hot in a afterwards iff it was hot in a or in b.                *)
(***************************************************************************)
IsOrOf(z, x, y) ==
  /\ z \in 0..255
  /\ \A k \in 0..7 : TestBit(z, k) <=> (TestBit(x, k) \/ TestBit(y, k))

\* a and b as they were before the last Join, and a after it.
JoinA0 == mh.before[1]

JoinB0 == mh.before[2]

JoinA == bm[mh.i]

C12_JoinIsOr ==
  (mh.op = "Join") =>
    /\ DOMAIN JoinA.metrics_ = DOMAIN JoinA0.metrics_
    /\ \A k \in DOMAIN JoinA0.metrics_ :
         IsOrOf(JoinA.metrics_[k], JoinA0.metrics_[k], JoinB0.metrics_[k])
    /\ [JoinA EXCEPT !.metrics_ = <<>>] = [JoinA0 EXCEPT !.metrics_ = <<>>]
    /\ mh.i # mh.j => bm[mh.j] = JoinB0
    /\ mh.i = mh.j => JoinA = JoinA0
    /\ Join(JoinB0, JoinA0).metrics_ = JoinA.metrics_
    /\ Join(JoinA, JoinB0) = JoinA
    /\ \A k \in DOMAIN bm :
         IsCompatible(JoinA0, bm[k]) =>
           Join(Join(JoinA0, JoinB0), bm[k]).metrics_
             = Join(JoinA0, Join(JoinB0, bm[k])).metrics_
    /\ \A r \in 0..(JoinA0.num_restarts_ - 1), s \in SlotProbes :
         BlockMetricsIsHot(JoinA, r, s) <=>
           \/ BlockMetricsIsHot(JoinA0, r, s)
           \/ BlockMetricsIsHot(JoinB0, r, s)

\* A join of two instances that each held an access the other lacked.
C12_Witness ==
  /\ mh.op = "Join" /\ mh.i # mh.j
  /\ acc[mh.j] # {}
  /\ JoinB0.metrics_ # JoinA0.metrics_
  /\ JoinA.metrics_ # JoinA0.metrics_
  /\ JoinA.metrics_ # JoinB0.metrics_

(***************************************************************************)
(* C13: for every BlockMetrics m reached by RecordAccess and Join calls,   *)
(* Create(m.GetDBKey(), m.GetDBValue()) returns an instance with m's       *)
(* num_restarts, bytes_per_restart and bitmap, so every IsHot query        *)
(* answers as on m.                                                        *)
(***************************************************************************)
C13_RoundTrip ==
  (mh.op = "Create") =>
    /\ mh.out.m.ok /\ ~mh.out.overrun
    /\ mh.out.m.num_restarts_ = bm[mh.i].num_restarts_
    /\ mh.out.m.bytes_per_restart_ = bm[mh.i].bytes_per_restart_
    /\ mh.out.m.metrics_ = bm[mh.i].metrics_
    /\ \A r \in 0..(bm[mh.i].num_restarts_ - 1), s \in SlotProbes :
         BlockMetricsIsHot(mh.out.m, r, s) <=> BlockMetricsIsHot(bm[mh.i], r, s)

\* The instance written out and read back held two or more accesses.
C13_Witness ==
  /\ mh.op = "Create" /\ mh.out.m.ok
  /\ Cardinality(acc[mh.i]) >= 2
  /\ \E k \in DOMAIN mh.out.m.metrics_ : mh.out.m.metrics_[k] # 0

(***************************************************************************)
(* C14: GetDBKey() is the 16 bytes u64_le(file_number) u64_le(block_offset)*)
(* and Create recovers m's file_number and block_offset from it, so the    *)
(* instance read back is IsCompatible with m, and instances of different   *)
(* block offsets of one file have different keys.                          *)
(***************************************************************************)
C14_KeyIdentifiesBlock ==
  /\ \A i \in DOMAIN bm :
       GetDBKey(bm[i])
         = PutFixed64(bm[i].file_number_) \o PutFixed64(bm[i].block_offset_)
  /\ \A i \in DOMAIN bm, j \in DOMAIN bm :
       (bm[i].file_number_ = bm[j].file_number_
          /\ bm[i].block_offset_ # bm[j].block_offset_)
         => GetDBKey(bm[i]) # GetDBKey(bm[j])
  /\ (mh.op = "Create") =>
       /\ mh.out.m.ok
       /\ mh.out.m.file_number_ = bm[mh.i].file_number_
       /\ mh.out.m.block_offset_ = bm[mh.i].block_offset_
       /\ IsCompatible(bm[mh.i], mh.out.m)

(***************************************************************************)
(* CallSpec: one call of a static function on arguments drawn from a       *)
(* bounded set: BlockMetrics::Create(db_key, db_value) or DecodeEntry(p,   *)
(* limit, ...).                                                            *)
(***************************************************************************)
CreateKeys ==
  { PutFixed64(7) \o PutFixed64(4096), <<>>,
    SubSeq(PutFixed64(7) \o PutFixed64(4096), 1, 15),
    PutFixed64(7) \o PutFixed64(4096) \o <<0>> }

CreateValues ==
  { <<>>, <<128>>, <<2>>, <<2, 128>>, <<255, 255, 255, 255, 255, 1>>,
    <<0, 0>>, <<0, 2, 9>>, <<1, 2>>, <<1, 2, 5>>, <<1, 2, 5, 6>>,
    <<1, 2, 5, 6, 7>>, <<2, 1, 0, 255>>, <<129, 0, 1, 3>>, <<2, 2, 1>> }

\* Encodings of 0, 1, 2, 127, 128, 2^31, 2^32 - 2 and 2^32 - 1, and a varint
\* that never ends.
VarintForms ==
  { <<0>>, <<1>>, <<2>>, <<127>>, <<128, 1>>, <<128, 128, 128, 128, 8>>,
    <<254, 255, 255, 255, 15>>, <<255, 255, 255, 255, 15>>,
    <<255, 255, 255, 255, 255, 1>> }

DecodeBuffers ==
  { sh \o ns \o vl \o Zeros(k) :
      sh \in { <<0>>, <<1>>, <<128, 1>> }, ns \in VarintForms,
      vl \in VarintForms, k \in 0..3 }

CallInputs ==
  { [f |-> "Create", key |-> k, value |-> v] :
      k \in CreateKeys, v \in CreateValues }
  \cup
  { [f |-> "DecodeEntry", buf |-> b, p |-> 0, limit |-> Len(b) - cut] :
      b \in DecodeBuffers, cut \in {0, 1} }

CallInit ==
  /\ call \in CallInputs
  /\ ret = NoRet
  /\ BlockIdle
  /\ MetricsIdle

ApplyCreate ==
  /\ call.f = "Create" /\ ~ret.done
  /\ \E out \in Create(call.key, call.value) :
       ret' = [done |-> TRUE, out |-> out]
  /\ UNCHANGED <<call, blockVars, metricsVars>>

ApplyDecodeEntry ==
  /\ call.f = "DecodeEntry" /\ ~ret.done
  /\ ret' = [done |-> TRUE, out |-> DecodeEntry(call.buf, call.p, call.limit)]
  /\ UNCHANGED <<call, blockVars, metricsVars>>

CallNextStep == ApplyCreate \/ ApplyDecodeEntry

CallSpec == CallInit /\ [][CallNextStep]_vars

(***************************************************************************)
(* C15: Create returns null for every malformed input: a db_key that is    *)
(* not 16 bytes, a db_value whose first or second varint32 does not        *)
(* decode, or a db_value whose bytes after the two varints are not         *)
(* num_restarts * bytes_per_restart many.                                  *)
(***************************************************************************)
Malformed(db_key, db_value) ==
  \/ Len(db_key) # 16
  \/ ~GetVarint32(db_value).ok
  \/ ~GetVarint32(GetVarint32(db_value).rest).ok
  \/ Len(GetVarint32(GetVarint32(db_value).rest).rest)
       # GetVarint32(db_value).value
           * GetVarint32(GetVarint32(db_value).rest).value

C15_MalformedIsNull ==
  (call.f = "Create" /\ ret.done /\ Malformed(call.key, call.value))
    => ~ret.out.m.ok

(***************************************************************************)
(* C16: when DecodeEntry succeeds, the key delta and the value lie inside  *)
(* the entry region: returned position + non_shared + value_length <=      *)
(* limit, for all 32-bit non_shared and value_length.                      *)
(***************************************************************************)
C16_EntryInsideRegion ==
  (call.f = "DecodeEntry" /\ ret.done /\ ret.out.ok) =>
    /\ ret.out.non_shared >= 0
    /\ ret.out.value_length >= 0
    /\ ret.out.non_shared <= call.limit - ret.out.p
    /\ ret.out.value_length <= call.limit - ret.out.p - ret.out.non_shared

(***************************************************************************)
(* C17: after construction and after every call on a Block iterator, on    *)
(* any block: Valid() iff current_ < restarts_; a valid iterator has       *)
(* restart_index_ < num_restarts_, so a metrics write stays inside the     *)
(* bitmap of num_restarts_ * bytes_per_restart bytes; an invalid one has   *)
(* restart_index_ = num_restarts_ and restart_offset_ = 0.                 *)
(***************************************************************************)
C17_IndexInvariant ==
  IsBlockIter =>
    /\ Valid(iter) <=> ULt(iter.current_, iter.restarts_)
    /\ Valid(iter) =>
         /\ ULt(iter.restart_index_, iter.num_restarts_)
         /\ iter.restart_index_ >= 0
         /\ iter.restart_index_ * kBytesPerRestart
              + UMod(iter.restart_offset_, kBytesPerRestart * 8) \div 8
              < iter.num_restarts_ * kBytesPerRestart
         /\ metrics.ok =>
              (iter.restart_index_ * kBytesPerRestart
                 + UMod(iter.restart_offset_, kBytesPerRestart * 8) \div 8 + 1)
                \in DOMAIN metrics.metrics_
    /\ ~Valid(iter) =>
         /\ iter.restart_index_ = iter.num_restarts_
         /\ iter.restart_offset_ = 0

\* Next ran off the end of a block after having counted entries.
C17_Witness ==
  /\ IsBlockIter /\ hist.op = "Next" /\ hist.count >= 2
  /\ ~Valid(iter) /\ status(iter) = "ok"
  /\ iter.restart_index_ = iter.num_restarts_ /\ iter.restart_offset_ = 0

(***************************************************************************)
(* C18: on a well-formed block a valid iterator's restart_index_ is the    *)
(* index of the restart region holding the current entry: the largest i    *)
(* with restart_point(i) <= current_, also when Next or Seek's linear scan *)
(* arrives on the first entry of a region.                                 *)
(***************************************************************************)
RegionAt(off) ==
  CHOOSE i \in 0..(iter.num_restarts_ - 1) :
    /\ GetRestartPoint(iter, i) <= off
    /\ \A j \in 0..(iter.num_restarts_ - 1) :
         GetRestartPoint(iter, j) <= off => j <= i

C18_RestartIndexIsRegion ==
  (WellFormed /\ IsBlockIter /\ Valid(iter)) =>
    iter.restart_index_ = RegionAt(iter.current_)

(***************************************************************************)
(* C19: on a well-formed block a valid iterator's restart_offset_ is the   *)
(* number of entries between the latest restart point at or before the     *)
(* current entry and the current entry: 0 exactly on a restart point, j on *)
(* the j-th entry after it.                                                *)
(***************************************************************************)
EntriesSinceRestart(off) ==
  Cardinality({ k \in 1..NumEntries :
                  /\ gen.entries[k].off >= GetRestartPoint(iter, RegionAt(off))
                  /\ gen.entries[k].off < off })

C19_RestartOffsetIsSlot ==
  (WellFormed /\ IsBlockIter /\ Valid(iter)) =>
    /\ iter.restart_offset_ = EntriesSinceRestart(iter.current_)
    /\ iter.restart_offset_ = 0
         <=> \E i \in 0..(iter.num_restarts_ - 1) :
               GetRestartPoint(iter, i) = iter.current_

(***************************************************************************)
(* C20: on a well-formed block the pair (restart_index_, restart_offset_)  *)
(* of a valid iterator depends on the current entry only: whatever calls   *)
(* led to the entry, the pair is the one SeekToFirst and Next calls give   *)
(* for it, so an entry recorded by a metrics iterator on one path is hot   *)
(* for Block::IsHot on an iterator that came another way.                  *)
(***************************************************************************)
RECURSIVE ScanFrom(_, _)
ScanFrom(it, off) ==
  IF ~Valid(it) \/ it.current_ = off THEN it ELSE ScanFrom(IterNext(it), off)

\* A fresh iterator over the same block taken by SeekToFirst and Next to the
\* entry at off.
ForwardScan(off) ==
  ScanFrom(IterSeekToFirst(Iter(iter.restarts_, iter.num_restarts_)), off)

C20_PathIndependent ==
  (WellFormed /\ IsBlockIter /\ Valid(iter)) =>
    /\ ForwardScan(iter.current_).current_ = iter.current_
    /\ ForwardScan(iter.current_).restart_index_ = iter.restart_index_
    /\ ForwardScan(iter.current_).restart_offset_ = iter.restart_offset_
    /\ BlockIsHot(iter,
                  RecordAccess(BlockMetrics(7, 4096, iter.num_restarts_,
                                            kBytesPerRestart),
                               ForwardScan(iter.current_)))

====
